---- MODULE Spec2Model ----
(***************************************************************************)
(* Model of the quantum algorithm simulator: the IQFT circuit class        *)
(* (src/utils/iqft.py) and the application window that builds and runs it  *)
(* (src/simulator.py).                                                     *)
(*                                                                         *)
(* Python values are written as follows.                                   *)
(*   str     a tuple of one-character strings, <<"4">>, <<"-","1">>        *)
(*   None    NoneStr where the field otherwise holds a str,                *)
(*           None where it otherwise holds an object                       *)
(*   dict    [tag |-> "dict", items |-> a set of <<key, value>>]           *)
(*   object  a record of its attributes                                    *)
(* An angle a*pi/b is kept as the pair num |-> a, den |-> b.               *)
(***************************************************************************)
EXTENDS Integers, Sequences, FiniteSets, TLC

VARIABLES
    current_simulation,  \* QFTSimulator.current_simulation
    noise_type,          \* QFTSimulator.noise_type
    noise_params,        \* QFTSimulator.noise_params
    noise_windows,       \* open "Noise Parameters" windows: the noise_type each captured
    frame_alive,         \* state_selectors_frame has not been destroyed
    qubit_states,        \* QFTSimulator.qubit_states: Unset, or the values of its StringVars
    iqft_number_entry,   \* QFTSimulator.iqft_number_entry: Unset, Alive or Destroyed
    analysis_menu,       \* the Analysis menu: which entries are enabled
    outcome              \* how the last call ended: what it showed, or that it raised

vars == <<current_simulation, noise_type, noise_params, noise_windows, frame_alive,
          qubit_states, iqft_number_entry, analysis_menu, outcome>>

\* The entries, comboboxes and checkbuttons (n_entry, algorithm_var, noise_var,
\* noise_type_var, measure, compare_var, the text of iqft_number_entry) hold
\* whatever the user last put there, and the user may change them between any
\* two handlers: a handler that reads one takes its value as an input.

-----------------------------------------------------------------------------
(* Bounds of the model *)

\* IQFT objects constructed directly have 1..MaxN qubits
MaxN == 3
\* at most this many "Noise Parameters" windows are open at once
MaxWindows == 1

-----------------------------------------------------------------------------
(* Python values *)

None == [tag |-> "None"]
NoneStr == <<"None">>

Range(n) == [i \in 1..n |-> i - 1]
Reversed(s) == [i \in 1..Len(s) |-> s[Len(s) + 1 - i]]

RECURSIVE Pow2(_)
Pow2(k) == IF k = 0 THEN 1 ELSE 2 * Pow2(k - 1)

DigitChars == <<"0", "1", "2", "3", "4", "5", "6", "7", "8", "9">>
IsDigit(c) == \E i \in 1..Len(DigitChars) : DigitChars[i] = c
DigitVal(c) == (CHOOSE i \in 1..Len(DigitChars) : DigitChars[i] = c) - 1

RECURSIVE DigitsValue(_)
DigitsValue(s) ==
    IF s = <<>> THEN 0
    ELSE 10 * DigitsValue(SubSeq(s, 1, Len(s) - 1)) + DigitVal(s[Len(s)])

\* int(s) for a str s: an optional sign and one or more decimal digits;
\* anything else raises ValueError
IntParse(s) ==
    LET signed == s # <<>> /\ s[1] \in {"-", "+"}
        body == IF signed THEN Tail(s) ELSE s
        ok == body # <<>> /\ \A i \in 1..Len(body) : IsDigit(body[i])
    IN  IF ~ok THEN [ok |-> FALSE, val |-> 0]
        ELSE [ok |-> TRUE,
              val |-> IF signed /\ s[1] = "-" THEN 0 - DigitsValue(body)
                      ELSE DigitsValue(body)]

UpperChars == <<"A", "B", "C", "D", "E", "F", "G", "H", "I", "J", "K", "L", "M",
                "N", "O", "P", "Q", "R", "S", "T", "U", "V", "W", "X", "Y", "Z">>
LowerChars == <<"a", "b", "c", "d", "e", "f", "g", "h", "i", "j", "k", "l", "m",
                "n", "o", "p", "q", "r", "s", "t", "u", "v", "w", "x", "y", "z">>

\* str.lower()
StrLower(s) ==
    [i \in 1..Len(s) |->
        IF \E k \in 1..Len(UpperChars) : UpperChars[k] = s[i]
        THEN LowerChars[CHOOSE k \in 1..Len(UpperChars) : UpperChars[k] = s[i]]
        ELSE s[i]]

\* str.replace(a, b) for one-character a and b
StrReplace(s, a, b) == [i \in 1..Len(s) |-> IF s[i] = a THEN b ELSE s[i]]

Dict(items) == [tag |-> "dict", items |-> items]
HasKey(d, k) == d # None /\ \E kv \in d.items : kv[1] = k

-----------------------------------------------------------------------------
(* The noise channel labels and the keys simulate looks up *)

BitFlip == <<"B", "i", "t", " ", "f", "l", "i", "p">>
PhaseFlip == <<"P", "h", "a", "s", "e", " ", "f", "l", "i", "p">>
Depolarizing == <<"D", "e", "p", "o", "l", "a", "r", "i", "z", "i", "n", "g">>
PhaseDamping == <<"P", "h", "a", "s", "e", " ", "D", "a", "m", "p", "i", "n", "g">>
AmplitudeDamping == <<"A", "m", "p", "l", "i", "t", "u", "d", "e", " ",
                      "D", "a", "m", "p", "i", "n", "g">>
noise_types == {BitFlip, PhaseFlip, Depolarizing, PhaseDamping, AmplitudeDamping}

Key_bit_flip == <<"b", "i", "t", "_", "f", "l", "i", "p">>
Key_phase_flip == <<"p", "h", "a", "s", "e", "_", "f", "l", "i", "p">>
Key_depolarizing == <<"d", "e", "p", "o", "l", "a", "r", "i", "z", "i", "n", "g">>
Key_phase_damping == <<"p", "h", "a", "s", "e", "_", "d", "a", "m", "p", "i", "n", "g">>
Key_amplitude_damping == <<"a", "m", "p", "l", "i", "t", "u", "d", "e", "_",
                           "d", "a", "m", "p", "i", "n", "g">>

\* the value of the parameter entry: its default text
ParamDefault == "0.01"

-----------------------------------------------------------------------------
(* class IQFT *)

IQFT_init(n, state, noise, ntype, noptions, meas, comparison) ==
    [cls |-> "IQFT", n |-> n, state |-> state, qc |-> None, noise |-> noise,
     noise_type |-> ntype, noise_options |-> noptions,
     resulting_state |-> None, resulting_probabilities |-> None,
     resulting_counts |-> None, measure |-> meas, target |-> None,
     comparison |-> comparison, comp_fidelity |-> None, comp_counts |-> None]

\* for qubit in range(n): qc.h(qubit)
HadamardLayer(n) == [i \in 1..n |-> [g |-> "h", q |-> Range(n)[i]]]

\* the loop over reversed(range(n)): qc.p(int(state) * pi / curr_num, qubit),
\* then curr_num *= 2
CurrNumNext(curr_num) == curr_num * 2

RECURSIVE PhaseLoop(_, _, _)
PhaseLoop(qubits, integer, curr_num) ==
    IF qubits = <<>> THEN <<>>
    ELSE <<[g |-> "p", num |-> integer, den |-> curr_num, q |-> Head(qubits)]>>
         \o PhaseLoop(Tail(qubits), integer, CurrNumNext(curr_num))

\* the divisor starting at 2 instead of 1
PhaseLayer_StartsAtTwo(n, integer) == PhaseLoop(Reversed(Range(n)), integer, 2)

PhaseLayer(n, integer) == PhaseLoop(Reversed(Range(n)), integer, 1)

\* for qubit in range(n // 2): qc.swap(qubit, n - qubit - 1); qc.barrier()
RECURSIVE SwapLoop(_, _)
SwapLoop(qubits, n) ==
    IF qubits = <<>> THEN <<>>
    ELSE <<[g |-> "swap", a |-> Head(qubits), b |-> n - Head(qubits) - 1],
           [g |-> "barrier"]>>
         \o SwapLoop(Tail(qubits), n)

SwapLayer(n) == SwapLoop(Range(n \div 2), n)

\* for control in reversed(range(target)): circuit.cp(-pi / 2 ** (target - control), ...)
RECURSIVE ControlLoop(_, _)
ControlLoop(controls, target) ==
    IF controls = <<>> THEN <<>>
    ELSE <<[g |-> "cp", num |-> 0 - 1, den |-> Pow2(target - Head(controls)),
            c |-> Head(controls), t |-> target]>>
         \o ControlLoop(Tail(controls), target)

RECURSIVE TargetLoop(_)
TargetLoop(targets) ==
    IF targets = <<>> THEN <<>>
    ELSE ControlLoop(Reversed(Range(Head(targets))), Head(targets))
         \o <<[g |-> "h", q |-> Head(targets)]>>
         \o TargetLoop(Tail(targets))

\* the targets taken from n-1 down to 0
add_iqft_rotations_Descending(n) == TargetLoop(Reversed(Range(n)))

add_iqft_rotations(n) == TargetLoop(Range(n))

\* the measurement appended before the capture
TerminalMarkers_MeasureFirst(noise, meas) ==
    (IF meas THEN <<[g |-> "measure_all"]>> ELSE <<>>)
    \o (IF noise THEN <<[g |-> "save_density_matrix"]>> ELSE <<>>)

\* if self.noise: qc.save_density_matrix(); if self.measure: qc.measure_all()
TerminalMarkers(noise, meas) ==
    (IF noise THEN <<[g |-> "save_density_matrix"]>> ELSE <<>>)
    \o (IF meas THEN <<[g |-> "measure_all"]>> ELSE <<>>)

\* add_iqft_circuit: the gates, or raised when int(self.state) raises
add_iqft_circuit(self) ==
    LET parsed == IntParse(self.state)
    IN  IF ~parsed.ok THEN [raised |-> TRUE, gates |-> <<>>]
        ELSE [raised |-> FALSE,
              gates |-> HadamardLayer(self.n)
                        \o PhaseLayer(self.n, parsed.val)
                        \o SwapLayer(self.n)
                        \o add_iqft_rotations(self.n)
                        \o TerminalMarkers(self.noise, self.measure)]

\* build_iqft: self.qc is assigned only when add_iqft_circuit returns
build_iqft(self) ==
    LET r == add_iqft_circuit(self)
    IN  IF r.raised THEN [self |-> self, raised |-> TRUE]
        ELSE [self |-> [self EXCEPT !.qc = [tag |-> "QuantumCircuit", n |-> self.n,
                                            gates |-> r.gates]],
              raised |-> FALSE]

HasGate(qc, name) == qc # None /\ \E i \in 1..Len(qc.gates) : qc.gates[i].g = name

-----------------------------------------------------------------------------
(* IQFT.simulate *)

\* shots=1024 of every run
Shots == 1024

\* self.noise_options[key] raises when noise_options is None (TypeError) or has
\* no such key (KeyError)
OptionValue(d, k) == (CHOOSE kv \in d.items : kv[1] = k)[2]

\* the error attached to every unitary gate of the circuit
AttachAtH_EveryGate(self, key, channel) ==
    IF ~HasKey(self.noise_options, key) THEN [raised |-> TRUE, model |-> None]
    ELSE [raised |-> FALSE,
          model |-> [tag |-> "NoiseModel",
                     errors |-> {[channel |-> channel,
                                  param |-> OptionValue(self.noise_options, key),
                                  gates |-> {"h", "p", "cp", "swap"}]}]]

\* noise_model.add_all_qubit_quantum_error(error, ['h'])
AttachAtH(self, key, channel) ==
    IF ~HasKey(self.noise_options, key) THEN [raised |-> TRUE, model |-> None]
    ELSE [raised |-> FALSE,
          model |-> [tag |-> "NoiseModel",
                     errors |-> {[channel |-> channel,
                                  param |-> OptionValue(self.noise_options, key),
                                  gates |-> {"h"}]}]]

\* lines 65-88: the noise model of a run
BuildNoiseModel(self) ==
    IF ~self.noise THEN [raised |-> FALSE, model |-> None]
    ELSE IF self.noise_type = Depolarizing
        THEN AttachAtH(self, Key_depolarizing, "depolarizing_error")
    ELSE IF self.noise_type = AmplitudeDamping
        THEN AttachAtH(self, Key_amplitude_damping, "amplitude_damping_error")
    ELSE IF self.noise_type = PhaseDamping
        THEN AttachAtH(self, Key_phase_damping, "phase_damping_error")
    ELSE IF self.noise_type = BitFlip
        THEN AttachAtH(self, Key_bit_flip, "Kraus[sqrt(p) I, sqrt(1-p) X]")
    ELSE IF self.noise_type = PhaseFlip
        THEN AttachAtH(self, Key_phase_flip, "Kraus[sqrt(p) I, sqrt(1-p) Z]")
    ELSE [raised |-> FALSE, model |-> [tag |-> "NoiseModel", errors |-> {}]]

\* result.get_counts(): the sampled counts of a circuit that measures; of a
\* circuit that does not, the probabilities of the saved statevector if the
\* result holds one, else it raises
GetCounts(qc, has_statevector) ==
    IF HasGate(qc, "measure_all")
        THEN [raised |-> FALSE, counts |-> [tag |-> "counts", shots |-> Shots]]
    ELSE IF has_statevector
        THEN [raised |-> FALSE, counts |-> [tag |-> "probabilities_dict"]]
    ELSE [raised |-> TRUE, counts |-> None]

Statevector(qc) == [tag |-> "Statevector", n |-> qc.n]
DensityMatrix(qc, model) == [tag |-> "DensityMatrix", n |-> qc.n, noise_model |-> model]
Probabilities(state) == [tag |-> "probabilities", of |-> state.tag]

\* lines 89-103: the comparison path; nothing is assigned before both runs are read
SimulateComparison(self, model) ==
    LET ideal_counts == GetCounts(self.qc, TRUE)
        noisy_counts == GetCounts(self.qc, FALSE)
    IN  IF self.qc = None THEN [self |-> self, raised |-> TRUE]
        ELSE IF ~HasGate(self.qc, "save_density_matrix")
            THEN [self |-> self, raised |-> TRUE]
        ELSE IF noisy_counts.raised THEN [self |-> self, raised |-> TRUE]
        ELSE [self |-> [self EXCEPT
                  !.comp_counts = [tag |-> "pair", ideal |-> ideal_counts.counts,
                                   noisy |-> noisy_counts.counts],
                  !.comp_fidelity = [tag |-> "pair", ideal |-> Statevector(self.qc),
                                     noisy |-> DensityMatrix(self.qc, model)]],
              raised |-> FALSE]

\* the counts read whether or not measure was requested
SimulateStatevector_AlwaysCounts(self) ==
    IF self.qc = None THEN [self |-> self, raised |-> TRUE]
    ELSE LET state == Statevector(self.qc)
         IN  [self |-> [self EXCEPT
                  !.target = [tag |-> "target", of |-> "StatevectorSimulator"],
                  !.resulting_state = state,
                  !.resulting_probabilities = Probabilities(state),
                  !.resulting_counts = GetCounts(self.qc, TRUE).counts],
              raised |-> FALSE]

\* lines 105-113: the run without noise
SimulateStatevector(self) ==
    IF self.qc = None THEN [self |-> self, raised |-> TRUE]
    ELSE LET state == Statevector(self.qc)
             s1 == [self EXCEPT !.target = [tag |-> "target", of |-> "StatevectorSimulator"],
                                !.resulting_state = state,
                                !.resulting_probabilities = Probabilities(state)]
         IN  [self |-> IF self.measure
                       THEN [s1 EXCEPT !.resulting_counts = GetCounts(self.qc, TRUE).counts]
                       ELSE s1,
              raised |-> FALSE]

\* lines 114-124: the run with noise
SimulateDensityMatrix(self, model) ==
    IF self.qc = None THEN [self |-> self, raised |-> TRUE]
    ELSE LET s0 == [self EXCEPT !.target = [tag |-> "target", of |-> "AerSimulator"]]
             state == DensityMatrix(self.qc, model)
             s1 == [s0 EXCEPT !.resulting_state = state,
                              !.resulting_probabilities = Probabilities(state)]
             counts == GetCounts(self.qc, FALSE)
         IN  IF ~HasGate(self.qc, "save_density_matrix")
                 THEN [self |-> s0, raised |-> TRUE]
             ELSE IF ~self.measure THEN [self |-> s1, raised |-> FALSE]
             ELSE IF counts.raised THEN [self |-> s1, raised |-> TRUE]
             ELSE [self |-> [s1 EXCEPT !.resulting_counts = counts.counts],
                   raised |-> FALSE]

\* the comparison path run on top of the plain run instead of in its place
simulate_BothPaths(self) ==
    LET nm == BuildNoiseModel(self)
        plain == IF ~self.noise THEN SimulateStatevector(self)
                 ELSE SimulateDensityMatrix(self, nm.model)
    IN  IF nm.raised THEN [self |-> self, raised |-> TRUE]
        ELSE IF self.comparison /\ ~plain.raised
            THEN SimulateComparison(plain.self, nm.model)
        ELSE plain

simulate(self) ==
    LET nm == BuildNoiseModel(self)
    IN  IF nm.raised THEN [self |-> self, raised |-> TRUE]
        ELSE IF self.comparison THEN SimulateComparison(self, nm.model)
        ELSE IF ~self.noise THEN SimulateStatevector(self)
        ELSE SimulateDensityMatrix(self, nm.model)

-----------------------------------------------------------------------------
(* class QFT and class PhaseEstimation (utils/qft.py, utils/phase_estimation.py) *)

Other_init(cls, n, state, noise, ntype, noptions, meas, comparison) ==
    [IQFT_init(n, state, noise, ntype, noptions, meas, comparison) EXCEPT !.cls = cls]

\* state preparation of every qubit, the QFT network, the reversing swaps
RECURSIVE QftControls(_, _)
QftControls(controls, target) ==
    IF controls = <<>> THEN <<>>
    ELSE <<[g |-> "cp", num |-> 1, den |-> Pow2(Head(controls) - target),
            c |-> Head(controls), t |-> target]>>
         \o QftControls(Tail(controls), target)

RECURSIVE QftSwaps(_, _)
QftSwaps(qubits, n) ==
    IF qubits = <<>> THEN <<>>
    ELSE <<[g |-> "swap", a |-> Head(qubits), b |-> n - Head(qubits) - 1]>>
         \o QftSwaps(Tail(qubits), n)

RECURSIVE QftTargets(_, _)
QftTargets(targets, n) ==
    IF targets = <<>> THEN <<>>
    ELSE <<[g |-> "h", q |-> Head(targets)]>>
         \o QftControls(SubSeq(Range(n), Head(targets) + 2, n), Head(targets))
         \o QftTargets(Tail(targets), n)

\* build_qft: defined for a state of exactly n labels
build_qft(self) ==
    IF self.state = NoneStr \/ Len(self.state) # self.n THEN [self |-> self, raised |-> TRUE]
    ELSE [self |-> [self EXCEPT !.qc =
                      [tag |-> "QuantumCircuit", n |-> self.n,
                       gates |-> [i \in 1..self.n |->
                                     [g |-> "initialize", label |-> self.state[i], q |-> i - 1]]
                                 \o QftTargets(Range(self.n), self.n)
                                 \o QftSwaps(Range(self.n \div 2), self.n)
                                 \o TerminalMarkers(self.noise, self.measure)]],
          raised |-> FALSE]

\* build_phase_estimation: an algorithm-fixed gate sequence
build_phase_estimation(self) ==
    [self |-> [self EXCEPT !.qc =
                  [tag |-> "QuantumCircuit", n |-> self.n,
                   gates |-> <<[g |-> "phase_estimation"]>>
                             \o TerminalMarkers(self.noise, self.measure)]],
     raised |-> FALSE]

\* simulate of these two classes: fails on a missing circuit or a missing noise
\* channel; comparison always samples both runs
simulate_other(self) ==
    LET channel == BuildNoiseModel(self)
        absent == channel.raised \/ channel.model = None \/ channel.model.errors = {}
        counts == [tag |-> "counts", shots |-> Shots]
    IN  IF self.qc = None THEN [self |-> self, raised |-> TRUE]
        ELSE IF (self.noise \/ self.comparison) /\ absent THEN [self |-> self, raised |-> TRUE]
        ELSE IF self.comparison
            THEN [self |-> [self EXCEPT
                      !.comp_counts = [tag |-> "pair", ideal |-> counts, noisy |-> counts],
                      !.comp_fidelity = [tag |-> "pair", ideal |-> Statevector(self.qc),
                                         noisy |-> DensityMatrix(self.qc, channel.model)]],
                  raised |-> FALSE]
        ELSE LET state == IF self.noise THEN DensityMatrix(self.qc, channel.model)
                          ELSE Statevector(self.qc)
             IN  [self |-> [self EXCEPT
                      !.resulting_state = state,
                      !.resulting_probabilities = Probabilities(state),
                      !.resulting_counts = IF self.measure THEN counts ELSE None],
                  raised |-> FALSE]

\* current_simulation.simulate(), by the class of the object
Simulate(self) == IF self.cls = "IQFT" THEN simulate(self) ELSE simulate_other(self)

-----------------------------------------------------------------------------
(* class QFTSimulator: the application window *)

MenuDisabled == [bloch |-> FALSE, probability |-> FALSE, state_city |-> FALSE,
                 comparison |-> FALSE]
Unset == <<"Unset">>

\* what the user types and selects
NEntryTexts == {<<"0">>, <<"2">>, <<"1", "1">>}
SetStatesTexts == {<<"0">>, <<"2">>, <<"3">>}
algorithms == {"QFT", "IQFT", "Phase Estimation"}
IqftTexts == {<<>>, <<"1">>}
UserNoiseTypes == {BitFlip}
basis_states == <<"|0>", "|1>", "|+>", "|->", "|i>", "|-i>">>

InitWindow ==
    /\ noise_type = NoneStr
    /\ noise_params = None
    /\ noise_windows = <<>>
    /\ frame_alive = TRUE
    /\ qubit_states = Unset
    /\ iqft_number_entry = "Unset"
    /\ analysis_menu = MenuDisabled

window_vars == <<noise_type, noise_params, noise_windows, frame_alive,
                 qubit_states, iqft_number_entry, analysis_menu>>

Init ==
    /\ InitWindow
    /\ current_simulation = None
    /\ outcome = "Simulator ready"

\* destroying the children of state_selectors_frame destroys an entry shown in it
ChildrenDestroyed(entry) == IF entry = "Alive" THEN "Destroyed" ELSE entry

\* lines 102-108 and 129-135: int(n_entry.get()), rejected unless positive
PositiveCount(n_str) == IntParse(n_str).ok /\ IntParse(n_str).val > 0

generate_qubit_states(n_str, algorithm) ==
    IF ~frame_alive
    THEN /\ outcome' = "uncaught: state_selectors_frame is destroyed"
         /\ UNCHANGED <<current_simulation, window_vars>>
    ELSE /\ IF algorithm = "QFT"
            THEN IF ~PositiveCount(n_str)
                 THEN /\ outcome' = "showerror: Invalid Input"
                      /\ iqft_number_entry' = ChildrenDestroyed(iqft_number_entry)
                      /\ UNCHANGED qubit_states
                 ELSE /\ outcome' = "none"
                      /\ iqft_number_entry' = ChildrenDestroyed(iqft_number_entry)
                      /\ qubit_states' = [i \in 1..IntParse(n_str).val |-> basis_states[1]]
            ELSE IF algorithm = "IQFT"
            THEN /\ outcome' = "none"
                 /\ iqft_number_entry' = "Alive"
                 /\ UNCHANGED qubit_states
            ELSE /\ outcome' = "none"
                 /\ iqft_number_entry' = ChildrenDestroyed(iqft_number_entry)
                 /\ UNCHANGED qubit_states
         /\ UNCHANGED <<current_simulation, noise_type, noise_params, noise_windows,
                        frame_alive, analysis_menu>>

\* noise_type.lower().replace(' ', '_')
SnakeCase(label) == StrReplace(StrLower(label), " ", "_")

\* create_noise_panel: the window captures noise_type_var; self.noise_type is
\* set as the window opens
create_noise_panel(noise_type_var) ==
    /\ Len(noise_windows) < MaxWindows
    /\ noise_windows' = Append(noise_windows, noise_type_var)
    /\ noise_type' = noise_type_var
    /\ outcome' = "none"
    /\ UNCHANGED <<current_simulation, noise_params, frame_alive,
                   qubit_states, iqft_number_entry, analysis_menu>>

WithoutWindow(w) == SubSeq(noise_windows, 1, w - 1) \o SubSeq(noise_windows, w + 1, Len(noise_windows))

\* the Apply Noise button of window w
apply(w) ==
    /\ w \in 1..Len(noise_windows)
    /\ noise_params' = Dict({<<SnakeCase(noise_windows[w]), ParamDefault>>})
    /\ noise_windows' = WithoutWindow(w)
    /\ outcome' = "Noise applied!"
    /\ UNCHANGED <<current_simulation, noise_type, frame_alive,
                   qubit_states, iqft_number_entry, analysis_menu>>

\* the user closes window w without applying
close_noise_panel(w) ==
    /\ w \in 1..Len(noise_windows)
    /\ noise_windows' = WithoutWindow(w)
    /\ outcome' = "none"
    /\ UNCHANGED <<current_simulation, noise_type, noise_params, frame_alive,
                   qubit_states, iqft_number_entry, analysis_menu>>

InvalidInput == "showerror: Invalid input"
CountRefused == "showerror: Invalid input: Number of qubits must be between 1 and 10"

\* the lower limit of the qubit count forgotten
QubitCount_NoLowerLimit(n_str) ==
    LET parsed == IntParse(n_str)
    IN  IF ~parsed.ok THEN [ok |-> FALSE, shown |-> InvalidInput]
        ELSE IF parsed.val > 10 THEN [ok |-> FALSE, shown |-> CountRefused]
        ELSE [ok |-> TRUE, n |-> parsed.val]

\* lines 294-296: n = int(n_str), refused when n < 1 or n > 10
QubitCount(n_str) ==
    LET parsed == IntParse(n_str)
    IN  IF ~parsed.ok THEN [ok |-> FALSE, shown |-> InvalidInput]
        ELSE IF parsed.val < 1 \/ parsed.val > 10 THEN [ok |-> FALSE, shown |-> CountRefused]
        ELSE [ok |-> TRUE, n |-> parsed.val]

\* QubitCount of every text the entry is given, computed once
QubitCounts == [t \in NEntryTexts |-> QubitCount(t)]

ValidQubitCount(n_str) == QubitCounts[n_str].ok

\* the entry texts build_circuit accepts as a qubit count, and those it does not
AcceptedTexts == {t \in NEntryTexts : ValidQubitCount(t)}
RefusedTexts == NEntryTexts \ AcceptedTexts

\* lines 302-318: the state string of the QFT, one character per StringVar
LabelChar(temp) ==
    IF temp = "|0>" THEN <<"0">>
    ELSE IF temp = "|1>" THEN <<"1">>
    ELSE IF temp = "|+>" THEN <<"+">>
    ELSE IF temp = "|->" THEN <<"-">>
    ELSE IF temp = "|i>" THEN <<"r">>
    ELSE IF temp = "|-i>" THEN <<"l">>
    ELSE <<>>

RECURSIVE QftStateString(_)
QftStateString(labels) ==
    IF labels = <<>> THEN <<>>
    ELSE LabelChar(Head(labels)) \o QftStateString(Tail(labels))

AllLabelsValid(labels) == \A i \in 1..Len(labels) : LabelChar(labels[i]) # <<>>

\* the results of the simulation in place carried into the object constructed
KeepResults(obj) ==
    IF current_simulation = None THEN obj
    ELSE [obj EXCEPT !.resulting_state = current_simulation.resulting_state,
                     !.resulting_probabilities = current_simulation.resulting_probabilities,
                     !.resulting_counts = current_simulation.resulting_counts,
                     !.comp_counts = current_simulation.comp_counts,
                     !.comp_fidelity = current_simulation.comp_fidelity]

Construct_KeepsResults(n, algorithm, noise, meas, comparison, iqft_text) ==
    IF algorithm = "QFT"
    THEN IF qubit_states = Unset THEN [made |-> FALSE]
         ELSE [made |-> TRUE,
               result |-> build_qft(KeepResults(
                              Other_init("QFT", n, QftStateString(qubit_states), noise,
                                         noise_type, noise_params, meas, comparison)))]
    ELSE IF algorithm = "IQFT"
    THEN IF iqft_number_entry # "Alive" THEN [made |-> FALSE]
         ELSE [made |-> TRUE,
               result |-> build_iqft(KeepResults(
                              IQFT_init(n, iqft_text, noise, noise_type, noise_params,
                                        meas, comparison)))]
    ELSE [made |-> TRUE,
          result |-> build_phase_estimation(KeepResults(
                         Other_init("PhaseEstimation", n, NoneStr, noise, noise_type,
                                    noise_params, meas, comparison)))]

\* lines 298-329: the object build_circuit constructs and the result of building it;
\* made FALSE when an exception is raised before the constructor is reached
Construct(n, algorithm, noise, meas, comparison, iqft_text) ==
    IF algorithm = "QFT"
    THEN IF qubit_states = Unset THEN [made |-> FALSE]
         ELSE [made |-> TRUE,
               result |-> build_qft(Other_init("QFT", n, QftStateString(qubit_states), noise,
                                               noise_type, noise_params, meas, comparison))]
    ELSE IF algorithm = "IQFT"
    THEN IF iqft_number_entry # "Alive" THEN [made |-> FALSE]
         ELSE [made |-> TRUE,
               result |-> build_iqft(IQFT_init(n, iqft_text, noise, noise_type,
                                               noise_params, meas, comparison))]
    ELSE [made |-> TRUE,
          result |-> build_phase_estimation(
                         Other_init("PhaseEstimation", n, NoneStr, noise, noise_type,
                                    noise_params, meas, comparison))]

\* build_circuit: the simulation in place and the message shown when it returns
BuildResult(n_str, algorithm, noise, meas, comparison, iqft_text) ==
    LET count == QubitCounts[n_str]
    IN  IF ~count.ok THEN [sim |-> current_simulation, shown |-> count.shown]
        ELSE IF algorithm = "QFT" /\ qubit_states # Unset /\ ~AllLabelsValid(qubit_states)
        THEN [sim |-> current_simulation, shown |-> "showerror: Invalid state for qubit"]
        ELSE LET c == Construct(count.n, algorithm, noise, meas, comparison, iqft_text)
             IN  IF ~c.made THEN [sim |-> current_simulation, shown |-> InvalidInput]
                 ELSE [sim |-> c.result.self,
                       shown |-> IF c.result.raised THEN InvalidInput ELSE "Circuit built"]

build_circuit(n_str, algorithm, noise, meas, comparison, iqft_text) ==
    /\ \E r \in {BuildResult(n_str, algorithm, noise, meas, comparison, iqft_text)} :
           /\ current_simulation' = r.sim
           /\ outcome' = r.shown
    /\ UNCHANGED window_vars

\* lines 379-392: the Analysis menu after a run
MenuAfterRun(compare_var, meas) ==
    IF compare_var
    THEN [bloch |-> FALSE, probability |-> FALSE, state_city |-> FALSE, comparison |-> TRUE]
    ELSE [bloch |-> TRUE, probability |-> meas, state_city |-> meas, comparison |-> FALSE]

run_simulation(compare_var, meas) ==
    /\ IF current_simulation = None
       THEN /\ outcome' = "showerror: Simulation failed"
            /\ UNCHANGED <<current_simulation, analysis_menu>>
       ELSE \E r \in {Simulate(current_simulation)} :
                /\ current_simulation' = r.self
                /\ IF r.raised
                   THEN /\ outcome' = "showerror: Simulation failed"
                        /\ UNCHANGED analysis_menu
                   ELSE /\ outcome' = "Simulation completed"
                        /\ analysis_menu' = MenuAfterRun(compare_var, meas)
    /\ UNCHANGED <<noise_type, noise_params, noise_windows, frame_alive,
                   qubit_states, iqft_number_entry>>

NoResults == "showwarning: No simulation results available"

\* lines 209-226
BlochOutcome(sim) ==
    IF sim = None \/ sim.resulting_state = None THEN NoResults
    ELSE "Bloch Sphere Analysis: plotted resulting_state"

\* lines 228-243
ProbabilityOutcome(sim) ==
    IF sim = None THEN "uncaught: no current_simulation"
    ELSE IF sim.resulting_state = None THEN NoResults
    ELSE IF sim.resulting_counts = None
        THEN "Probability Analysis: window opened, uncaught: resulting_counts is None"
    ELSE "Probability Analysis: plotted resulting_counts"

\* lines 245-260
StateCityOutcome(sim) ==
    IF sim = None THEN "uncaught: no current_simulation"
    ELSE IF sim.resulting_state = None THEN NoResults
    ELSE "State City Analysis: plotted resulting_state"

\* lines 262-287
ComparisonOutcome(sim) ==
    IF sim = None THEN "uncaught: no current_simulation"
    ELSE IF sim.qc = None THEN NoResults
    ELSE IF sim.comp_counts = None
        THEN "Fidelity Analysis: window opened, uncaught: comp_counts is None"
    ELSE IF sim.comp_fidelity = None
        THEN "Fidelity Analysis: window opened, uncaught: comp_fidelity is None"
    ELSE "Fidelity Analysis: plotted comp_counts and comp_fidelity"

Shown(text) ==
    /\ outcome' = text
    /\ UNCHANGED <<current_simulation, window_vars>>

show_bloch_sphere_window == analysis_menu.bloch /\ Shown(BlochOutcome(current_simulation))
show_probability_window ==
    analysis_menu.probability /\ Shown(ProbabilityOutcome(current_simulation))
show_state_city_window ==
    analysis_menu.state_city /\ Shown(StateCityOutcome(current_simulation))
show_comparison_window ==
    analysis_menu.comparison /\ Shown(ComparisonOutcome(current_simulation))

clear_input ==
    /\ qubit_states' = <<>>
    /\ noise_params' = None
    /\ frame_alive' = FALSE
    /\ iqft_number_entry' = ChildrenDestroyed(iqft_number_entry)
    /\ outcome' = "none"
    /\ UNCHANGED <<current_simulation, noise_type, noise_windows, analysis_menu>>

reset_simulation ==
    /\ analysis_menu' = MenuDisabled
    /\ outcome' = "Ready to build circuit"
    /\ UNCHANGED <<current_simulation, noise_type, noise_params, noise_windows, frame_alive,
                   qubit_states, iqft_number_entry>>

Next ==
    \/ \E n_str \in SetStatesTexts, algorithm \in algorithms :
           generate_qubit_states(n_str, algorithm)
    \/ \E noise_type_var \in UserNoiseTypes : create_noise_panel(noise_type_var)
    \/ \E w \in 1..MaxWindows : apply(w)
    \/ \E w \in 1..MaxWindows : close_noise_panel(w)
    \/ \E n_str \in RefusedTexts :
           build_circuit(n_str, "QFT", FALSE, FALSE, FALSE, <<>>)
    \/ \E n_str \in AcceptedTexts,
          algorithm \in algorithms \ {"IQFT"},
          noise \in BOOLEAN, meas \in BOOLEAN, comparison \in BOOLEAN :
           build_circuit(n_str, algorithm, noise, meas, comparison, <<>>)
    \/ \E n_str \in AcceptedTexts,
          noise \in BOOLEAN, meas \in BOOLEAN, comparison \in BOOLEAN,
          iqft_text \in IqftTexts :
           build_circuit(n_str, "IQFT", noise, meas, comparison, iqft_text)
    \/ \E compare_var \in BOOLEAN, meas \in BOOLEAN : run_simulation(compare_var, meas)
    \/ show_bloch_sphere_window
    \/ show_probability_window
    \/ show_state_city_window
    \/ show_comparison_window
    \/ clear_input
    \/ reset_simulation

Spec == Init /\ [][Next]_vars

-----------------------------------------------------------------------------
(* The IQFT class on its own: an object constructed with any arguments, then *)
(* build_iqft and simulate called on it in any order                         *)

StateTexts == {<<"0">>, <<"1">>, <<"3">>, <<"1", "6">>, <<"-", "1">>, <<"x">>, <<>>}
NoiseKeys == {Key_bit_flip, Key_phase_flip, Key_depolarizing, Key_phase_damping,
              Key_amplitude_damping}
NoiseTypeArgs == noise_types \cup {NoneStr}
NoiseOptionArgs == {Dict({<<k, ParamDefault>>}) : k \in NoiseKeys} \cup {None}

InitIQFT ==
    /\ InitWindow
    /\ outcome = "constructed"
    /\ \E n \in 1..MaxN, state \in StateTexts, noise \in BOOLEAN,
          ntype \in NoiseTypeArgs, noptions \in NoiseOptionArgs,
          meas \in BOOLEAN, comparison \in BOOLEAN :
            current_simulation = IQFT_init(n, state, noise, ntype, noptions, meas, comparison)

CallBuildIqft ==
    LET r == build_iqft(current_simulation)
    IN  /\ current_simulation' = r.self
        /\ outcome' = IF r.raised THEN "build_iqft raised" ELSE "build_iqft returned"
        /\ UNCHANGED window_vars

CallSimulate ==
    LET r == simulate(current_simulation)
    IN  /\ current_simulation' = r.self
        /\ outcome' = IF r.raised THEN "simulate raised" ELSE "simulate returned"
        /\ UNCHANGED window_vars

NextIQFT == CallBuildIqft \/ CallSimulate

SpecIQFT == InitIQFT /\ [][NextIQFT]_vars

-----------------------------------------------------------------------------
(* Properties *)

HoldsNoResults(sim) ==
    /\ sim.resulting_state = None
    /\ sim.resulting_probabilities = None
    /\ sim.resulting_counts = None
    /\ sim.comp_counts = None
    /\ sim.comp_fidelity = None

RunOutcomes == {"Simulation completed", "showerror: Simulation failed"}
BuildOutcomes == {"Circuit built", InvalidInput, CountRefused}

\* C1: a build that puts a simulation object in place leaves it with no results
\* (resulting state, probabilities, counts, comparison counts pair and comparison
\* state pair all None), whatever an earlier simulation had produced, and from
\* then on only Run Simulation gives the current simulation a result.
C1_BuildDiscardsResults ==
    [][/\ outcome' = "Circuit built" => HoldsNoResults(current_simulation')
       /\ (outcome' \in BuildOutcomes /\ current_simulation' # current_simulation)
            => HoldsNoResults(current_simulation')
       /\ (/\ current_simulation # None
           /\ current_simulation' # None
           /\ HoldsNoResults(current_simulation)
           /\ ~HoldsNoResults(current_simulation'))
            => outcome' \in RunOutcomes]_vars

\* a circuit was built after a run had enabled the Analysis menu, and the
\* simulation now in place holds no result
C1_Witness ==
    /\ outcome = "Circuit built"
    /\ analysis_menu.bloch
    /\ HoldsNoResults(current_simulation)

\* C2 (as claimed): in comparison mode, with noise requested and its channel
\* available, simulate on a built circuit sets the comparison counts pair and the
\* comparison state pair, whether or not measure was requested.
C2_ComparisonAlwaysSamples ==
    (/\ outcome \in {"simulate returned", "simulate raised"}
     /\ current_simulation.comparison
     /\ current_simulation.qc # None
     /\ current_simulation.noise
     /\ current_simulation.noise_type \in noise_types
     /\ HasKey(current_simulation.noise_options, SnakeCase(current_simulation.noise_type)))
        => /\ current_simulation.comp_counts # None
           /\ current_simulation.comp_fidelity # None

\* C3: on one simulation object the two paths exclude each other: built for
\* comparison, its resulting state, probabilities and counts stay None; built
\* without comparison, its comparison pairs stay None.
C3_PathsExclusive ==
    /\ current_simulation.comparison
        => /\ current_simulation.resulting_state = None
           /\ current_simulation.resulting_probabilities = None
           /\ current_simulation.resulting_counts = None
    /\ ~current_simulation.comparison
        => /\ current_simulation.comp_counts = None
           /\ current_simulation.comp_fidelity = None

\* simulate has set the comparison pairs of a comparison object
C3_Witness ==
    /\ outcome = "simulate returned"
    /\ current_simulation.comparison
    /\ current_simulation.comp_counts # None
    /\ current_simulation.comp_fidelity # None

\* C4: when simulate returns on an object built without comparison, the resulting
\* state and probabilities are set, and the resulting counts are set exactly when
\* measure was requested.
C4_CountsIffMeasure ==
    (outcome = "simulate returned" /\ ~current_simulation.comparison)
        => /\ current_simulation.resulting_state # None
           /\ current_simulation.resulting_probabilities # None
           /\ (current_simulation.resulting_counts # None) <=> current_simulation.measure

\* a noisy run without measurement returned: a density matrix and no counts
C4_Witness ==
    /\ outcome = "simulate returned"
    /\ ~current_simulation.comparison
    /\ current_simulation.noise
    /\ ~current_simulation.measure
    /\ current_simulation.resulting_state.tag = "DensityMatrix"
    /\ current_simulation.resulting_counts = None

\* n outside 1..10, stated on the entry text itself
CountOutOfRange(n_str) ==
    IntParse(n_str).ok /\ IntParse(n_str).val \notin 1..10

OutOfRangeTexts == {t \in NEntryTexts : CountOutOfRange(t)}

\* C5: a build with a qubit count outside 1..10 shows the error, creates no
\* simulation object and leaves the one in place unchanged.
C5_InvalidCountBuildsNothing ==
    /\ [](\A n_str \in OutOfRangeTexts :
             \A algorithm \in algorithms, noise \in BOOLEAN, meas \in BOOLEAN,
                comparison \in BOOLEAN, iqft_text \in IqftTexts :
                  BuildResult(n_str, algorithm, noise, meas, comparison, iqft_text)
                      = [sim |-> current_simulation, shown |-> CountRefused])
    /\ [][outcome' = CountRefused => current_simulation' = current_simulation]_vars

\* a build was refused for its qubit count while a simulation with results was in
\* place, which it kept
C5_Witness ==
    /\ outcome = CountRefused
    /\ current_simulation # None
    /\ current_simulation.qc # None
    /\ current_simulation.resulting_state # None

\* C6 (as claimed): build_iqft returns only for a state string that parses to an
\* integer in 0..2^n-1; otherwise it raises.
C6_StateInRangeOrRaises ==
    outcome = "build_iqft returned"
        => /\ IntParse(current_simulation.state).ok
           /\ IntParse(current_simulation.state).val >= 0
           /\ IntParse(current_simulation.state).val < Pow2(current_simulation.n)

NoChannel(sim) == sim.noise_type = NoneStr \/ sim.noise_options = None

\* C7 (as claimed): with noise requested and no noise channel available (no noise
\* type selected, or no noise parameters applied), simulate raises.
C7_MissingChannelRaises ==
    (/\ outcome \in {"simulate returned", "simulate raised"}
     /\ current_simulation.noise
     /\ NoChannel(current_simulation))
        => outcome = "simulate raised"

AnalysisOutcomes ==
    {BlochOutcome(current_simulation), ProbabilityOutcome(current_simulation),
     StateCityOutcome(current_simulation), ComparisonOutcome(current_simulation)}

\* C8 (as claimed): simulate before any build fails, and an analysis request made
\* while the current simulation holds no result is answered by the warning and
\* nothing else.
C8_AnalysisNeedsResults ==
    /\ (current_simulation = None /\ outcome \in RunOutcomes)
        => outcome = "showerror: Simulation failed"
    /\ (/\ current_simulation # None
        /\ HoldsNoResults(current_simulation)
        /\ outcome \in AnalysisOutcomes)
        => outcome = NoResults

\* C9 (as claimed): a simulation built with noise enabled was handed noise_options
\* with exactly one entry, keyed by the snake-cased noise_type handed to it.
C9_OptionsMatchType ==
    (current_simulation # None /\ current_simulation.noise)
        => /\ current_simulation.noise_options # None
           /\ Cardinality(current_simulation.noise_options.items) = 1
           /\ \A kv \in current_simulation.noise_options.items :
                  kv[1] = SnakeCase(current_simulation.noise_type)

PhaseGates(qc) == SelectSeq(qc.gates, LAMBDA gate : gate.g = "p")

\* the claimed exponent of the j-th visited qubit: 1, then doubled after each qubit
RECURSIVE DoublingK(_)
DoublingK(j) == IF j = 1 THEN 1 ELSE 2 * DoublingK(j - 1)

\* C10 (as claimed): the phase layer has one rotation per qubit, on qubits
\* n-1..0 in that order, the j-th of angle integer*pi / 2^k with k = 1 for the
\* first and k doubled after each qubit.
C10_ExponentDoubles ==
    (current_simulation.qc # None)
        => LET gates == PhaseGates(current_simulation.qc)
               integer == IntParse(current_simulation.state).val
           IN  /\ Len(gates) = current_simulation.n
               /\ \A j \in 1..Len(gates) :
                    /\ gates[j].q = current_simulation.n - j
                    /\ gates[j].num * Pow2(DoublingK(j)) = integer * gates[j].den

\* C10 (amended): the phase layer has one rotation per qubit, on qubits n-1..0 in
\* that order, the j-th of angle integer*pi / d with d = 1 for the first and d
\* doubled after each qubit (d = 2^(j-1)); it follows the n Hadamards directly.
C10_DivisorDoubles ==
    (current_simulation.qc # None)
        => LET gates == PhaseGates(current_simulation.qc)
               integer == IntParse(current_simulation.state).val
               n == current_simulation.n
           IN  /\ Len(gates) = n
               /\ SubSeq(current_simulation.qc.gates, n + 1, 2 * n) = gates
               /\ \A j \in 1..Len(gates) :
                    /\ gates[j].q = n - j
                    /\ gates[j].num * Pow2(j - 1) = integer * gates[j].den

\* a circuit of three qubits or more was built for a non-zero integer
C10_Witness ==
    /\ outcome = "build_iqft returned"
    /\ current_simulation.n >= 3
    /\ IntParse(current_simulation.state).val # 0
    /\ Len(PhaseGates(current_simulation.qc)) = current_simulation.n

\* the gates of a built IQFT circuit before the rotation network: n Hadamards, n
\* phase rotations, n \div 2 swaps each with its barrier
PrefixLen(n) == 2 * n + 2 * (n \div 2)
\* the rotation network: for every target its controlled rotations and a Hadamard
NetworkLen(n) == (n * (n + 1)) \div 2
\* where the gates of target t start in the network
BlockStart(t) == (t * (t + 1)) \div 2

Network(qc) == SubSeq(qc.gates, PrefixLen(qc.n) + 1, PrefixLen(qc.n) + NetworkLen(qc.n))
CountOf(gates, name) == Cardinality({i \in 1..Len(gates) : gates[i].g = name})

\* C11: in a built IQFT circuit the n Hadamards, the n phase rotations and the
\* n \div 2 swap+barrier pairs come first; then, for each target t = 0..n-1 in
\* increasing order, the controlled-phase rotations of controls c = t-1 down to 0
\* (angle -pi/2^(t-c), control c, target t) and a Hadamard on t; the network holds
\* exactly n(n-1)/2 controlled-phase gates and n Hadamards, and the circuit has no
\* controlled-phase gate outside it.
C11_RotationNetwork ==
    (current_simulation.qc # None)
        => LET qc == current_simulation.qc
               n == qc.n
               net == Network(qc)
           IN  /\ Len(qc.gates) >= PrefixLen(n) + NetworkLen(n)
               /\ \A i \in 1..n : qc.gates[i] = [g |-> "h", q |-> i - 1]
               /\ \A i \in n + 1..2 * n : qc.gates[i].g = "p"
               /\ \A k \in 1..(n \div 2) :
                    /\ qc.gates[2 * n + 2 * k - 1]
                         = [g |-> "swap", a |-> k - 1, b |-> n - k]
                    /\ qc.gates[2 * n + 2 * k] = [g |-> "barrier"]
               /\ \A t \in 0..n - 1 :
                    /\ \A c \in 0..t - 1 :
                         net[BlockStart(t) + (t - c)]
                             = [g |-> "cp", num |-> 0 - 1, den |-> Pow2(t - c),
                                c |-> c, t |-> t]
                    /\ net[BlockStart(t) + t + 1] = [g |-> "h", q |-> t]
               /\ CountOf(net, "cp") * 2 = n * (n - 1)
               /\ CountOf(net, "h") = n
               /\ CountOf(qc.gates, "cp") = CountOf(net, "cp")

\* a circuit of three qubits was built: target 2 has the controls 1 and 0
C11_Witness ==
    /\ outcome = "build_iqft returned"
    /\ current_simulation.n = 3
    /\ CountOf(Network(current_simulation.qc), "cp") = 3

Markers == {"save_density_matrix", "measure_all"}

\* C12: after the algorithm gates a built IQFT circuit holds the terminal markers
\* and nothing else: the density-matrix capture iff noise was requested, the
\* measurement iff measure was requested, each at most once, no marker among the
\* algorithm gates, and with both present the capture directly before the
\* measurement, which is last.
C12_TerminalMarkers ==
    (current_simulation.qc # None)
        => LET qc == current_simulation.qc
               body == PrefixLen(qc.n) + NetworkLen(qc.n)
               tail == SubSeq(qc.gates, body + 1, Len(qc.gates))
           IN  /\ \A i \in 1..body : qc.gates[i].g \notin Markers
               /\ \A i \in 1..Len(tail) : tail[i].g \in Markers
               /\ CountOf(qc.gates, "save_density_matrix")
                    = (IF current_simulation.noise THEN 1 ELSE 0)
               /\ CountOf(qc.gates, "measure_all")
                    = (IF current_simulation.measure THEN 1 ELSE 0)
               /\ (current_simulation.noise /\ current_simulation.measure)
                    => /\ tail[1].g = "save_density_matrix"
                       /\ tail[2].g = "measure_all"
                       /\ qc.gates[Len(qc.gates)].g = "measure_all"

\* a circuit was built with both noise and measure requested
C12_Witness ==
    /\ outcome = "build_iqft returned"
    /\ current_simulation.noise
    /\ current_simulation.measure
    /\ Len(current_simulation.qc.gates)
         = PrefixLen(current_simulation.n) + NetworkLen(current_simulation.n) + 2

\* the gates of qc that an error of the noise model is attached to
NoisySites(qc, model) ==
    {i \in 1..Len(qc.gates) : \E e \in model.errors : qc.gates[i].g \in e.gates}
HadamardSites(qc) == {i \in 1..Len(qc.gates) : qc.gates[i].g = "h"}

\* the noise model a returned noisy run was given
ModelOfRun(sim) ==
    IF sim.comparison THEN sim.comp_fidelity.noisy.noise_model
    ELSE sim.resulting_state.noise_model

C14_QftStateHasNLabels ==
    (current_simulation # None /\ current_simulation.cls = "QFT")
        => Len(current_simulation.state) = current_simulation.n

\* C15 (as claimed): while the Comparison Analysis entry is enabled, the current
\* simulation holds a comparison counts pair and a comparison state pair.
C15_ComparisonEnabledHasPairs ==
    analysis_menu.comparison
        => /\ current_simulation # None
           /\ current_simulation.comp_counts # None
           /\ current_simulation.comp_fidelity # None

====
